---- MODULE Spec2Model ----
(***************************************************************************)
(* Darcy-flow field store of the sphere DEM code (src/darcy.cpp): the      *)
(* ghost-padded grid, the two index mappings, the FTCS stability check,    *)
(* the residual statistics and the allocation lifecycle.                   *)
(*                                                                         *)
(* Float values are modelled as exact rationals [nan, n, d] (d > 0, lowest *)
(* terms) plus one NaN value; arithmetic and comparisons follow IEEE rules *)
(* for NaN (every ordered comparison with NaN is false, NaN # NaN).        *)
(* Offsets of the modelled grids are far below 2^32, so the unsigned int   *)
(* results of the index computations never wrap.                           *)
(***************************************************************************)
EXTENDS Integers, Sequences, FiniteSets

VARIABLES grid, params, time, np, input, darcy, heap, pc, last

vars == <<grid, params, time, np, input, darcy, heap, pc, last>>

\* ---- bounds of the model ------------------------------------------------
MaxNx == 2
MaxNy == 2
MaxNz == 2

\* ---- Float arithmetic ---------------------------------------------------
Abs(a) == IF a < 0 THEN -a ELSE a

RECURSIVE Gcd(_, _)
Gcd(a, b) == IF b = 0 THEN a ELSE Gcd(b, a % b)

\* the rational n/d in lowest terms with a positive denominator
Rat(n, d) ==
    LET s == IF d < 0 THEN -1 ELSE 1
        g == Gcd(Abs(n), Abs(d))
    IN  [nan |-> FALSE, n |-> (s * n) \div g, d |-> (s * d) \div g]

F(n) == [nan |-> FALSE, n |-> n, d |-> 1]

NaN == [nan |-> TRUE, n |-> 0, d |-> 1]

FAdd(a, b) ==
    IF a.nan \/ b.nan THEN NaN ELSE Rat(a.n * b.d + b.n * a.d, a.d * b.d)

FMul(a, b) ==
    IF a.nan \/ b.nan THEN NaN ELSE Rat(a.n * b.n, a.d * b.d)

\* divisors of the model are never zero (cell counts and lengths are positive)
FDiv(a, b) ==
    IF a.nan \/ b.nan \/ b.n = 0 THEN NaN ELSE Rat(a.n * b.d, a.d * b.n)

\* a > b; false when either side is NaN
FGt(a, b) == ~a.nan /\ ~b.nan /\ a.n * b.d > b.n * a.d

\* fmin(a, b): the smaller value, the other one when one is NaN
fmin(a, b) ==
    IF a.nan THEN b ELSE IF b.nan THEN a ELSE IF FGt(a, b) THEN b ELSE a

\* norm_res != norm_res
IsNaNNever(a) == FALSE

IsNaN(a) == a.nan

\* ---- grid geometry and index mappings -----------------------------------
\* (darcy.nx)*(darcy.ny)*(darcy.nz): the count without ghost nodes
darcyCellsNoGhost(d) == d.nx * d.ny * d.nz

darcyCells(d) == (d.nx + 2) * (d.ny + 2) * (d.nz + 2)

darcyCellsVelocity(d) == (d.nx + 3) * (d.ny + 3) * (d.nz + 3)

\* x + nx*y + nx*ny*z: the mapping without ghost nodes
d_idxNoGhost(d, x, y, z) == x + d.nx * y + d.nx * d.ny * z

d_idx(d, x, y, z) ==
    (x + 1) + (d.nx + 2) * (y + 1) + (d.nx + 2) * (d.ny + 2) * (z + 1)

\* the face mapping computed with the scalar grid's extents
d_vidxScalarStride(d, x, y, z) ==
    (x + 1) + (d.nx + 2) * (y + 1) + (d.nx + 2) * (d.ny + 2) * (z + 1)

d_vidx(d, x, y, z) ==
    (x + 1) + (d.nx + 3) * (y + 1) + (d.nx + 3) * (d.ny + 3) * (z + 1)

\* coordinates of the interior cells of an nx*ny*nz grid
Interior(nx, ny, nz) == (0 .. nx - 1) \X (0 .. ny - 1) \X (0 .. nz - 1)

\* coordinates of the padded scalar grid (ghost nodes at -1 and n)
Padded(nx, ny, nz) == (-1 .. nx) \X (-1 .. ny) \X (-1 .. nz)

\* coordinates of the padded face-velocity grid
PaddedFace(nx, ny, nz) == (-1 .. nx + 1) \X (-1 .. ny + 1) \X (-1 .. nz + 1)

\* coordinate addressed by a flat offset of the padded scalar grid
CoordOf(num, off) ==
    LET W == num[1] + 2
        H == num[2] + 2
    IN  <<(off % W) - 1, ((off \div W) % H) - 1, (off \div (W * H)) - 1>>

\* ---- contents the field arrays hold when the diagnostics run -------------
Zero3 == <<F(0), F(0), F(0)>>

NaN3 == <<NaN, NaN, NaN>>

\* residual values: interior background c, ghost value g, one interior cell
\* sp holding s
NormPatterns(num) ==
    LET base == {[c |-> F(0), g |-> F(9)], [c |-> F(0), g |-> NaN],
                 [c |-> F(2), g |-> NaN]}
    IN  { [c |-> b.c, g |-> b.g, sp |-> <<0, 0, 0>>, s |-> b.c] : b \in base }
        \cup
        { [c |-> b.c, g |-> b.g, sp |-> q, s |-> w] :
            b \in base,
            q \in Interior(num[1], num[2], num[3]),
            w \in {NaN, F(5), F(-2000000000)} }

\* velocities: interior background c, ghost value g, one interior cell sp
\* holding s
VelPatterns(num) ==
    LET base == {[c |-> Zero3, g |-> Zero3],
                 [c |-> Zero3, g |-> <<F(9), F(9), F(9)>>],
                 [c |-> <<F(1), F(0), F(0)>>, g |-> <<F(9), F(9), F(9)>>]}
    IN  { [c |-> b.c, g |-> b.g, sp |-> <<0, 0, 0>>, s |-> b.c] : b \in base }
        \cup
        { r \in { [c |-> b.c, g |-> b.g, sp |-> q, s |-> w] :
                    b \in base,
                    q \in Interior(num[1], num[2], num[3]),
                    w \in {Zero3, <<F(1), F(1), F(1)>>, <<F(3), F(-3), F(1)>>} } :
            r.s # r.c }

QuietNorm == [c |-> F(0), g |-> F(0), sp |-> <<0, 0, 0>>, s |-> F(0)]

QuietVel == [c |-> Zero3, g |-> Zero3, sp |-> <<0, 0, 0>>, s |-> Zero3]

\* the array of n elements a pattern describes
FieldOf(num, pat, n) ==
    [off \in 0 .. n - 1 |->
        LET q == CoordOf(num, off)
        IN  IF q = pat.sp THEN pat.s
            ELSE IF q \in Interior(num[1], num[2], num[3]) THEN pat.c
            ELSE pat.g]

\* arr[off]; an offset outside the allocation reads an indeterminate value
Load(arr, off, undef) == IF off \in DOMAIN arr THEN arr[off] ELSE undef

ArrayNames == {"p", "v", "phi", "dphi", "norm", "f_p"}

GridNums == (1 .. MaxNx) \X (1 .. MaxNy) \X (1 .. MaxNz)

NoCall == [op |-> "none", outcome |-> "none", cell |-> <<>>, val |-> F(0),
           vel |-> <<>>, reads |-> <<>>]

\* the DEM object before initDarcyMem: nothing allocated
Fresh(num, L, mu, dt, in) ==
    /\ grid = [num |-> num, L |-> L]
    /\ params = [mu |-> mu]
    /\ time = [dt |-> dt]
    /\ np = 2
    /\ input = in
    /\ darcy = [nx |-> 0, ny |-> 0, nz |-> 0,
                p |-> <<>>, v |-> <<>>, phi |-> <<>>, dphi |-> <<>>,
                norm |-> <<>>, f_p |-> <<>>]
    /\ heap = [a \in ArrayNames |-> [live |-> FALSE, len |-> 0]]
    /\ pc = "new"
    /\ last = NoCall

\* runs that exercise the residual statistics
InitRes ==
    \E num \in GridNums : \E pat \in NormPatterns(num) :
        Fresh(num, <<F(2), F(2), F(2)>>, Rat(1, 8), F(1),
              [norm |-> pat, v |-> QuietVel])

\* domain lengths, viscosity and time step of the stability runs
StabConfigs ==
    {[L |-> <<F(2), F(2), F(2)>>, mu |-> Rat(1, 8), dt |-> F(1)],
     [L |-> <<F(2), F(2), F(2)>>, mu |-> F(1), dt |-> F(2)],
     [L |-> <<F(1), F(2), F(4)>>, mu |-> Rat(1, 8), dt |-> F(1)],
     [L |-> <<F(1), F(2), F(4)>>, mu |-> Rat(1, 8), dt |-> F(2)]}

\* runs that exercise the stability check
InitStab ==
    \E num \in GridNums :
    \E e \in StabConfigs :
    \E pat \in VelPatterns(num) :
        Fresh(num, e.L, e.mu, e.dt, [norm |-> QuietNorm, v |-> pat])

Init == InitRes \/ InitStab

\* ---- FieldStore lifecycle ------------------------------------------------
Called(op) == [NoCall EXCEPT !.op = op, !.outcome = "returned"]

initDarcyMem ==
    /\ pc = "new"
    /\ LET d1 == [darcy EXCEPT !.nx = grid.num[1], !.ny = grid.num[2],
                               !.nz = grid.num[3]]
           ncells == darcyCells(d1)
       IN  /\ darcy' = [d1 EXCEPT
                          !.p = FieldOf(grid.num, QuietNorm, ncells),
                          !.v = FieldOf(grid.num, input.v, ncells),
                          !.phi = FieldOf(grid.num, QuietNorm, ncells),
                          !.dphi = FieldOf(grid.num, QuietNorm, ncells),
                          !.norm = FieldOf(grid.num, input.norm, ncells),
                          !.f_p = [i \in 0 .. np - 1 |-> <<F(0), F(0), F(0), F(0)>>]]
           /\ heap' = [a \in ArrayNames |->
                         [live |-> TRUE, len |-> IF a = "f_p" THEN np ELSE ncells]]
    /\ pc' = "running"
    /\ last' = Called("initDarcyMem")
    /\ UNCHANGED <<grid, params, time, np, input>>

\* delete[] of the six arrays
freeDarcyMem(h) == [a \in ArrayNames |-> [h[a] EXCEPT !.live = FALSE]]

endDarcy ==
    /\ pc = "running"
    /\ heap' = freeDarcyMem(heap)
    /\ pc' = "ended"
    /\ last' = Called("endDarcy")
    /\ UNCHANGED <<grid, params, time, np, input, darcy>>

\* exit(1): the process stops where it is, nothing is released
Exit(report) ==
    /\ pc' = "aborted"
    /\ last' = report
    /\ UNCHANGED <<grid, params, time, np, input, darcy, heap>>

Return(report) ==
    /\ last' = report
    /\ UNCHANGED <<grid, params, time, np, input, darcy, heap, pc>>

\* offsets of the first n cells of a scan, in scan order
Offsets(cells, n) ==
    [i \in 1 .. n |-> d_idx(darcy, cells[i][1], cells[i][2], cells[i][3])]

\* ---- StabilityChecker ---------------------------------------------------
CellSize(a) == FDiv(grid.L[a], F(grid.num[a]))

\* the von Neumann test with dx in the place of the smallest spacing
DiffusionUnstableDxOnly ==
    FGt(FDiv(FMul(params.mu, time.dt), FMul(CellSize(1), CellSize(1))), Rat(1, 2))

DiffusionUnstable ==
    LET dmin == fmin(CellSize(1), fmin(CellSize(2), CellSize(3)))
    IN  FGt(FDiv(FMul(params.mu, time.dt), FMul(dmin, dmin)), Rat(1, 2))

\* v.x*dt/dx + v.y*dt/dy + v.z*dt/dz > 1.0
CflExceeded(v) ==
    FGt(FAdd(FAdd(FDiv(FMul(v[1], time.dt), CellSize(1)),
                  FDiv(FMul(v[2], time.dt), CellSize(2))),
             FDiv(FMul(v[3], time.dt), CellSize(3))),
        F(1))

\* the interior sweep with z as the outermost loop
StabilityCellsZOuter ==
    LET nx == darcy.nx
        ny == darcy.ny
        nz == darcy.nz
    IN  [i \in 1 .. nx * ny * nz |->
            <<(i - 1) % nx, ((i - 1) \div nx) % ny, (i - 1) \div (nx * ny)>>]

\* for x, for y, for z over the interior
StabilityCells ==
    LET nx == darcy.nx
        ny == darcy.ny
        nz == darcy.nz
    IN  [i \in 1 .. nx * ny * nz |->
            <<(i - 1) \div (ny * nz), ((i - 1) \div nz) % ny, (i - 1) % nz>>]

\* index of the first cell at or after i whose velocity breaks the CFL bound,
\* 0 when the sweep completes
RECURSIVE cflLoop(_, _)
cflLoop(cells, i) ==
    IF i > Len(cells) THEN 0
    ELSE LET v == Load(darcy.v,
                       d_idx(darcy, cells[i][1], cells[i][2], cells[i][3]), NaN3)
         IN  IF CflExceeded(v) THEN i ELSE cflLoop(cells, i + 1)

checkDarcyStability ==
    /\ pc = "running"
    /\ IF DiffusionUnstable
       THEN Exit([op |-> "checkDarcyStability", outcome |-> "diffusion",
                  cell |-> <<>>, val |-> F(0), vel |-> <<>>, reads |-> <<>>])
       ELSE LET cells == StabilityCells
                hit == cflLoop(cells, 1)
            IN  IF hit # 0
                THEN Exit([op |-> "checkDarcyStability", outcome |-> "advection",
                           cell |-> cells[hit], val |-> F(0),
                           vel |-> Load(darcy.v, Offsets(cells, hit)[hit], NaN3),
                           reads |-> Offsets(cells, hit)])
                ELSE Return([op |-> "checkDarcyStability", outcome |-> "returned",
                             cell |-> <<>>, val |-> F(0), vel |-> <<>>,
                             reads |-> Offsets(cells, Len(cells))])

\* ---- ResidualAnalyzer ---------------------------------------------------
\* values an uninitialised double can hold
UninitDouble == {F(0), F(7), NaN}

MaxSentinel == F(-1000000000)

\* a sweep over the whole padded grid, ghost nodes included
ResidualCellsWithGhosts ==
    LET W == grid.num[1] + 2
        H == grid.num[2] + 2
        D == grid.num[3] + 2
    IN  [i \in 1 .. W * H * D |->
            <<((i - 1) % W) - 1, (((i - 1) \div W) % H) - 1, ((i - 1) \div (W * H)) - 1>>]

\* for z, for y, for x over 0 .. grid.num[] - 1
ResidualCells ==
    LET nx == grid.num[1]
        ny == grid.num[2]
        nz == grid.num[3]
    IN  [i \in 1 .. nx * ny * nz |->
            <<(i - 1) % nx, ((i - 1) \div nx) % ny, (i - 1) \div (nx * ny)>>]

\* hit: index of the first NaN cell at or after i (0: none); acc: the sum
RECURSIVE avgLoop(_, _, _)
avgLoop(cells, i, norm_res_sum) ==
    IF i > Len(cells) THEN [hit |-> 0, acc |-> norm_res_sum]
    ELSE LET norm_res == Load(darcy.norm,
                              d_idx(darcy, cells[i][1], cells[i][2], cells[i][3]), NaN)
         IN  IF IsNaN(norm_res) THEN [hit |-> i, acc |-> norm_res_sum]
             ELSE avgLoop(cells, i + 1, FAdd(norm_res_sum, norm_res))

\* hit: index of the first NaN cell at or after i (0: none); acc: the maximum
RECURSIVE maxLoop(_, _, _)
maxLoop(cells, i, max_norm_res) ==
    IF i > Len(cells) THEN [hit |-> 0, acc |-> max_norm_res]
    ELSE LET norm_res == Load(darcy.norm,
                              d_idx(darcy, cells[i][1], cells[i][2], cells[i][3]), NaN)
         IN  IF IsNaN(norm_res) THEN [hit |-> i, acc |-> max_norm_res]
             ELSE maxLoop(cells, i + 1,
                          IF FGt(norm_res, max_norm_res) THEN norm_res
                          ELSE max_norm_res)

NanReport(op, cells, hit) ==
    [op |-> op, outcome |-> "nan", cell |-> cells[hit], val |-> NaN,
     vel |-> <<>>, reads |-> Offsets(cells, hit)]

ValueReport(op, cells, value) ==
    [op |-> op, outcome |-> "returned", cell |-> <<>>, val |-> value,
     vel |-> <<>>, reads |-> Offsets(cells, Len(cells))]

\* the mean computed by a version that zeroes the residuals it has summed
avgNormResDarcyClobber ==
    /\ pc = "running"
    /\ \E garbage \in UninitDouble :
        LET cells == ResidualCells
            r == avgLoop(cells, 1, garbage)
            n == grid.num[1] * grid.num[2] * grid.num[3]
        IN  IF r.hit # 0
            THEN Exit(NanReport("avgNormResDarcy", cells, r.hit))
            ELSE /\ last' = ValueReport("avgNormResDarcy", cells, FDiv(r.acc, F(n)))
                 /\ darcy' = [darcy EXCEPT !.norm = [o \in DOMAIN darcy.norm |-> F(0)]]
                 /\ UNCHANGED <<grid, params, time, np, input, heap, pc>>

\* norm_res_sum is declared without an initial value
avgNormResDarcy ==
    /\ pc = "running"
    /\ \E garbage \in UninitDouble :
        LET cells == ResidualCells
            r == avgLoop(cells, 1, garbage)
            n == grid.num[1] * grid.num[2] * grid.num[3]
        IN  IF r.hit # 0
            THEN Exit(NanReport("avgNormResDarcy", cells, r.hit))
            ELSE Return(ValueReport("avgNormResDarcy", cells, FDiv(r.acc, F(n))))

maxNormResDarcy ==
    /\ pc = "running"
    /\ LET cells == ResidualCells
           r == maxLoop(cells, 1, MaxSentinel)
       IN  IF r.hit # 0
           THEN Exit(NanReport("maxNormResDarcy", cells, r.hit))
           ELSE Return(ValueReport("maxNormResDarcy", cells, r.acc))

\* ---- debug dumps --------------------------------------------------------
\* for z = nz down to -1, for y = -1 .. ny, for x = -1 .. nx
PrintCells ==
    LET W == darcy.nx + 2
        H == darcy.ny + 2
        D == darcy.nz + 2
    IN  [i \in 1 .. W * H * D |->
            <<((i - 1) % W) - 1, (((i - 1) \div W) % H) - 1,
              darcy.nz - ((i - 1) \div (W * H))>>]

\* for z, for y, for x over the interior; each cell is read for .x, .y and .z
PrintCells3 ==
    LET nx == darcy.nx
        ny == darcy.ny
        nz == darcy.nz
    IN  [i \in 1 .. 3 * nx * ny * nz |->
            LET k == (i - 1) \div 3
            IN  <<k % nx, (k \div nx) % ny, k \div (nx * ny)>>]

\* printDarcyArray(FILE*, Float*): a dump of one of the scalar fields; the
\* offsets read are the same whichever field is dumped
printDarcyArray ==
    /\ pc = "running"
    /\ Return([op |-> "printDarcyArray", outcome |-> "returned", cell |-> <<>>,
               val |-> F(0), vel |-> <<>>,
               reads |-> Offsets(PrintCells, Len(PrintCells))])

\* printDarcyArray(FILE*, Float3*): a dump of the velocity field
printDarcyArray3 ==
    /\ pc = "running"
    /\ Return([op |-> "printDarcyArray3", outcome |-> "returned", cell |-> <<>>,
               val |-> F(0), vel |-> <<>>,
               reads |-> Offsets(PrintCells3, Len(PrintCells3))])

Next ==
    \/ initDarcyMem
    \/ checkDarcyStability
    \/ avgNormResDarcy
    \/ maxNormResDarcy
    \/ printDarcyArray
    \/ printDarcyArray3
    \/ endDarcy

Spec == Init /\ [][Next]_vars

\* ---- properties ---------------------------------------------------------
\* residualNorm and velocity at a grid coordinate, through the documented
\* scalar layout (x+1) + (nx+2)(y+1) + (nx+2)(ny+2)(z+1)
LayoutOffset(q) ==
    (q[1] + 1) + (darcy.nx + 2) * (q[2] + 1)
        + (darcy.nx + 2) * (darcy.ny + 2) * (q[3] + 1)

NormAt(q) == darcy.norm[LayoutOffset(q)]

VelAt(q) == darcy.v[LayoutOffset(q)]

InteriorCells == Interior(darcy.nx, darcy.ny, darcy.nz)

PaddedSize == (darcy.nx + 2) * (darcy.ny + 2) * (darcy.nz + 2)

RECURSIVE SumNorm(_)
SumNorm(S) ==
    IF S = {} THEN 0
    ELSE LET q == CHOOSE r \in S : TRUE
         IN  NormAt(q).n + SumNorm(S \ {q})

Returned(op) == last.op = op /\ last.outcome = "returned"

\* C1: over the padded range -1..nx, -1..ny, -1..nz the scalar mapping d_idx
\* is injective and its offsets are exactly 0 .. (nx+2)(ny+2)(nz+2)-1, the
\* index range of the arrays initDarcyMem allocates with darcyCells().
C1_ScalarIndexBijection ==
    pc # "new" =>
        LET P == Padded(darcy.nx, darcy.ny, darcy.nz)
            img == {d_idx(darcy, q[1], q[2], q[3]) : q \in P}
        IN  /\ Cardinality(img) = Cardinality(P)
            /\ img = 0 .. PaddedSize - 1
            /\ heap["norm"].len = PaddedSize
            /\ DOMAIN darcy.norm = img

C1_Witness ==
    /\ pc = "running"
    /\ <<darcy.nx, darcy.ny, darcy.nz>> = <<2, 1, 2>>
    /\ Returned("printDarcyArray")
    /\ Len(last.reads) = PaddedSize

\* C2: every call of avgNormResDarcy that returns yields the sum of the
\* interior residuals divided by nx*ny*nz (the accumulator starts at zero).
C2_MeanFromZeroAccumulator ==
    Returned("avgNormResDarcy") =>
        last.val = Rat(SumNorm(InteriorCells), darcy.nx * darcy.ny * darcy.nz)

\* C3 as stated: maxNormResDarcy returns the maximum of the interior residuals
\* of every NaN-free field.
C3_MaxIsInteriorMax ==
    Returned("maxNormResDarcy") =>
        /\ \E q \in InteriorCells : last.val = NormAt(q)
        /\ \A q \in InteriorCells : ~FGt(NormAt(q), last.val)

\* C3 amended: maxNormResDarcy returns the larger of -1.0e9 and the maximum of
\* the interior residuals, whatever the ghost cells hold: the interior maximum
\* when some interior residual exceeds -1.0e9 (so M when one cell holds M > 0
\* and the others 0), and -1.0e9 otherwise.
C3_MaxAboveSentinel ==
    Returned("maxNormResDarcy") =>
        /\ \A q \in InteriorCells : ~FGt(NormAt(q), last.val)
        /\ (\E q \in InteriorCells : NormAt(q).n > -1000000000)
              => \E q \in InteriorCells : last.val = NormAt(q)
        /\ (\A q \in InteriorCells : NormAt(q).n <= -1000000000)
              => last.val = F(-1000000000)
        /\ \A q \in InteriorCells :
              (/\ NormAt(q).n > 0
               /\ \A r \in InteriorCells \ {q} : NormAt(r) = F(0))
              => last.val = NormAt(q)

C3_Witness ==
    /\ Returned("maxNormResDarcy")
    /\ last.val = F(5)
    /\ input.norm.g = F(9)
    /\ input.norm.sp = <<1, 0, 1>>
    /\ \A r \in InteriorCells \ {<<1, 0, 1>>} : NormAt(r) = F(0)

\* C4: with exactly one interior NaN cell, avgNormResDarcy and maxNormResDarcy
\* both end in the fatal outcome naming that cell and return nothing; with no
\* interior NaN (whatever the ghost cells hold) neither ends in it.
C4_SingleNaNIsFatal ==
    last.op \in {"avgNormResDarcy", "maxNormResDarcy"} =>
        LET nans == {q \in InteriorCells : NormAt(q).nan}
        IN  /\ Cardinality(nans) = 1
                => /\ last.outcome = "nan"
                   /\ pc = "aborted"
                   /\ last.cell \in nans
            /\ nans = {} => (last.outcome = "returned" /\ pc = "running")

C4_Witness ==
    /\ last.op = "avgNormResDarcy"
    /\ last.outcome = "nan"
    /\ last.cell = <<1, 0, 1>>
    /\ {q \in InteriorCells : NormAt(q).nan} = {<<1, 0, 1>>}
    /\ input.norm.g = NaN

\* mu*dt/d^2 > 1/2 for the spacing d = L[a]/num[a] of axis a, in integers
AxisDiffusionExceeded(a) ==
    2 * params.mu.n * time.dt.n * (grid.num[a] * grid.L[a].d) * (grid.num[a] * grid.L[a].d)
        > params.mu.d * time.dt.d * grid.L[a].n * grid.L[a].n

\* the von Neumann bound is exceeded for the smallest spacing
DiffusionExceeded == \E a \in 1 .. 3 : AxisDiffusionExceeded(a)

\* v.x*dt/dx + v.y*dt/dy + v.z*dt/dz > 1 in integers (velocities and dt are
\* whole numbers in the modelled runs)
CourantExceeded(v) ==
    LET t(a) == v[a].n * time.dt.n * grid.num[a] * grid.L[a].d
        l(a) == grid.L[a].n
    IN  t(1) * l(2) * l(3) + t(2) * l(1) * l(3) + t(3) * l(1) * l(2)
            > l(1) * l(2) * l(3)

Offenders == {q \in InteriorCells : CourantExceeded(VelAt(q))}

\* C5: checkDarcyStability ends with the diffusion diagnostic exactly when
\* viscosity*dt/dmin^2 > 0.5, whatever the velocity field holds, and it has
\* then read no velocity cell.
C5_DiffusionCheckFirst ==
    last.op = "checkDarcyStability" =>
        /\ last.outcome = "diffusion" <=> DiffusionExceeded
        /\ last.outcome = "diffusion" => (last.reads = <<>> /\ pc = "aborted")

C5_Witness ==
    /\ last.op = "checkDarcyStability"
    /\ last.outcome = "diffusion"
    /\ Offenders # {}
    /\ pc = "aborted"

\* position of an interior cell in the sweep for x, for y, for z
SweepRank(q) == q[1] * darcy.ny * darcy.nz + q[2] * darcy.nz + q[3] + 1

\* C6: when the diffusion bound holds, checkDarcyStability ends with the
\* advection diagnostic exactly when some interior cell exceeds the CFL bound;
\* it reports the first such cell of the sweep with its velocity and reads no
\* cell after it; a uniform violating field is reported at (0,0,0).
C6_AdvectionFirstOffender ==
    (last.op = "checkDarcyStability" /\ ~DiffusionExceeded) =>
        /\ last.outcome = "advection" <=> Offenders # {}
        /\ Offenders = {} => (last.outcome = "returned" /\ pc = "running")
        /\ Offenders # {} =>
              /\ pc = "aborted"
              /\ last.cell \in Offenders
              /\ \A q \in Offenders : SweepRank(last.cell) <= SweepRank(q)
              /\ last.vel = VelAt(last.cell)
              /\ Len(last.reads) = SweepRank(last.cell)
              /\ \A q \in InteriorCells :
                    SweepRank(q) <= SweepRank(last.cell)
                        => last.reads[SweepRank(q)] = LayoutOffset(q)
        /\ Offenders = InteriorCells => last.cell = <<0, 0, 0>>

C6_Witness ==
    /\ last.op = "checkDarcyStability"
    /\ last.outcome = "advection"
    /\ last.cell = <<0, 0, 1>>
    /\ <<1, 0, 0>> \in Offenders
    /\ CourantExceeded(input.v.g)

\* C7: when the run has ended, normally or by a fatal abort, every array that
\* initDarcyMem allocated has been released.
C7_NoLeakAtRunEnd ==
    pc \in {"ended", "aborted"} => \A a \in ArrayNames : ~heap[a].live

\* C8: over the range -1..nx+1, -1..ny+1, -1..nz+1 the face mapping d_vidx is
\* injective and every offset lies in 0 .. darcyCellsVelocity()-1.
C8_FaceIndexInjective ==
    pc # "new" =>
        LET P == PaddedFace(darcy.nx, darcy.ny, darcy.nz)
            img == {d_vidx(darcy, q[1], q[2], q[3]) : q \in P}
        IN  /\ Cardinality(img) = Cardinality(P)
            /\ img \subseteq 0 .. (darcy.nx + 3) * (darcy.ny + 3) * (darcy.nz + 3) - 1
            /\ darcyCellsVelocity(darcy)
                  = (darcy.nx + 3) * (darcy.ny + 3) * (darcy.nz + 3)

C8_Witness ==
    /\ pc = "running"
    /\ <<darcy.nx, darcy.ny, darcy.nz>> = <<1, 2, 2>>
    /\ d_vidx(darcy, 2, 3, 3) = darcyCellsVelocity(darcy) - 1

\* C9: a call of avgNormResDarcy or maxNormResDarcy that returns leaves every
\* field array, the grid dimensions and the allocations as they were.
C9_ResidualStatsReadOnly ==
    [][(/\ last' # last
        /\ last'.op \in {"avgNormResDarcy", "maxNormResDarcy"}
        /\ last'.outcome = "returned")
          => (darcy' = darcy /\ grid' = grid /\ heap' = heap /\ np' = np)]_vars

C9_Witness ==
    /\ Returned("avgNormResDarcy")
    /\ last.val = F(3)
    /\ \E off \in DOMAIN darcy.norm : darcy.norm[off] = F(5)

\* C10: after initDarcyMem every offset read by the stability check, the
\* residual statistics and the dumps lies inside the allocation of
\* (darcy.nx+2)(darcy.ny+2)(darcy.nz+2) elements, the residual sweeps'
\* grid.num[] bounds being the dimensions copied into darcy.
C10_ReadsInBounds ==
    pc # "new" =>
        /\ <<darcy.nx, darcy.ny, darcy.nz>> = grid.num
        /\ \A a \in ArrayNames \ {"f_p"} : heap[a].len = PaddedSize
        /\ \A i \in 1 .. Len(last.reads) :
              last.reads[i] >= 0 /\ last.reads[i] < heap["norm"].len

C10_Witness ==
    /\ Returned("maxNormResDarcy")
    /\ grid.num = <<2, 2, 1>>
    /\ Len(last.reads) = 4
    /\ last.reads[4] = LayoutOffset(<<1, 1, 0>>)

====
